---------------------------- MODULE Spec2Model ----------------------------
(***************************************************************************)
(* A model of cdqa/reader/reader_sklearn.py: the sklearn-style Reader      *)
(* (construction, fit, evaluate, predict) and the module-level train,      *)
(* evaluate, load_and_cache_examples and predict functions it drives.      *)
(*                                                                         *)
(* The module holds one group of variables per entry point.  Each          *)
(* specification drives one entry point and leaves the other groups at     *)
(* their idle values:                                                      *)
(*   SpecInit    Reader.__init__, one instance per process                 *)
(*   SpecFit     Reader.fit -> load_and_cache_examples -> train -> save    *)
(*   SpecInfer   the inference loops of evaluate() and predict(), and      *)
(*               Reader.predict                                            *)
(*   SpecEval    Reader.evaluate over the checkpoints of output_dir        *)
(*   SpecDecode  the span decoders of utils_squad (not part of the         *)
(*               sources at hand; modelled from the design document)       *)
(***************************************************************************)
EXTENDS Integers, Sequences, FiniteSets, TLC

(***************************************************************************)
(* Values shared by the entry points.                                      *)
(***************************************************************************)
\* Python's None, where a string or a tensor is expected.
None == "<None>"

\* The keys of MODEL_CLASSES.
MODEL_CLASSES == {"bert", "xlnet", "xlm"}

\* The model types that take the extended (beam) post-processing.
ExtendedTypes == {"xlnet", "xlm"}

\* str.lower() on the model-type strings the constructor is given.
Lower(s) ==
    CASE s = "BERT"  -> "bert"
      [] s = "XLNet" -> "xlnet"
      [] s = "XLM"   -> "xlm"
      [] OTHER       -> s

\* The values of model_type the constructor is called with: the three
\* families, two of them in another case, an unknown family, and the
\* default None.
ModelTypeInputs == {"bert", "xlnet", "xlm", "BERT", "XLNet", "gpt2", None}

VARIABLES
    \* ---- Reader.__init__ (one instance per process) ----
    world,          \* 0: one process, local_rank = -1; n > 0: ranks 0..n-1
    init_type,      \* the model_type argument
    init_no_cuda,   \* the no_cuda argument
    ipc,            \* process -> position in __init__
    computed,       \* process -> the set-up steps it has carried out
    arrived,        \* the processes waiting in torch.distributed.barrier()
    ierror,         \* process -> the exception __init__ raised, or None
    \* ---- the Reader object and the file system, shared by fit and inference ----
    args,           \* the Reader's hyperparameters (train and evaluate get args=self)
    output_dir,     \* args.output_dir on disk: [exists, files, checkpoints]
    cache_file,     \* the cached_{train,dev}_... file: [state, features]
    model_updates,  \* optimizer steps applied to self.model since construction
    \* ---- Reader.fit and train ----
    train_file,     \* X: the SQuAD file fit is given
    fpc,            \* position in fit / train
    ferror,         \* the exception fit raised, or None
    train_dataset,  \* the features of the dataset load_and_cache_examples returned
    t_total,        \* train: the logged total of optimization steps
    epoch,          \* train: index of the running epoch
    step,           \* train: index of the next batch of the epoch
    global_step,    \* train: optimizer steps taken
    accum,          \* train: backward passes since the last model.zero_grad()
    applied,        \* train: backward passes behind each optimizer step, in order
    \* ---- evaluate() / predict() and Reader.predict ----
    infer_fn,       \* the function that runs: "evaluate" or "predict"
    dev_file,       \* input_file: the SQuAD file to run inference on
    epc,            \* position in the function
    eerror,         \* the exception it raised, or None
    features,       \* the features load_and_cache_examples returned
    dataset,        \* the TensorDataset: one tuple of tensors per feature
    order,          \* the indices the sampler yields to this process
    pos,            \* how many of them the loop has consumed
    model_calls,    \* the keyword arguments of every row the model was fed
    all_results,    \* all_results
    writes,         \* calls of write_predictions / write_predictions_extended
    written,        \* what the last such call returned
    returned,       \* what the module-level function returned
    predicted,      \* what Reader.predict returned
    \* ---- Reader.evaluate ----
    output_path,    \* args.output_dir, the path: pieces without "-", and "-"
    vpc,            \* position in Reader.evaluate
    verror,         \* the exception it raised, or None
    checkpoints,    \* the list of checkpoint paths to evaluate
    evaluated,      \* how many of them have been evaluated
    results,        \* the mapping returned: entries [key, suffix, source]
    \* ---- the span decoders ----
    decoder,        \* "standard" or "extended"
    example,        \* the Example: its words and its (Feature, RawResult) pairs
    limits,         \* [n_best_size, max_answer_length, n_top]
    dpc,            \* "ready" before decoding, "decoded" after, then
                    \* "answered"
    nbest,          \* the n-best list: entries [feature, start, end, score, text]
    mode,           \* what the aggregator is given besides the list:
                    \* [version_2_with_negative, cls_logits]
    answer          \* what the aggregator emits: [text, raised]

initVars == <<world, init_type, init_no_cuda, ipc, computed, arrived, ierror>>

readerVars == <<args, output_dir, cache_file, model_updates>>

fitVars == <<train_file, fpc, ferror, train_dataset, t_total, epoch, step,
             global_step, accum, applied>>

inferVars == <<infer_fn, dev_file, epc, eerror, features, dataset, order, pos,
               model_calls, all_results, writes, written, returned, predicted>>

evalVars == <<output_path, vpc, verror, checkpoints, evaluated, results>>

decodeVars == <<decoder, example, limits, dpc, nbest, mode, answer>>

vars == <<initVars, readerVars, fitVars, inferVars, evalVars, decodeVars>>

\* What each entry point leaves alone.
notInitVars == <<readerVars, fitVars, inferVars, evalVars, decodeVars>>
notFitVars == <<initVars, inferVars, evalVars, decodeVars>>
notInferVars == <<init_type, init_no_cuda, ipc, computed, arrived, ierror,
                  fitVars, evalVars, decodeVars>>
notEvalVars == <<initVars, fitVars, inferVars, decodeVars>>
notDecodeVars == <<initVars, readerVars, fitVars, inferVars, evalVars>>

\* The largest number of processes of a distributed run.
MaxProcs == 2

Procs == 1..MaxProcs

(***************************************************************************)
(* The Reader's hyperparameters and the files it works on.                 *)
(***************************************************************************)
\* The constructor's defaults (lines 392-431) for the fields the functions
\* below read; model_type is the lower-cased one of line 506.
DefaultArgs ==
    [ model_type                  |-> "bert",
      local_rank                  |-> -1,
      n_gpu                       |-> 0,
      version_2_with_negative     |-> TRUE,
      evaluate_during_training    |-> TRUE,
      per_gpu_train_batch_size    |-> 8,
      per_gpu_eval_batch_size     |-> 8,
      gradient_accumulation_steps |-> 1,
      num_train_epochs            |-> 3,
      max_steps                   |-> -1,
      logging_steps               |-> 50,
      save_steps                  |-> 50,
      eval_all_checkpoints        |-> TRUE,
      overwrite_output_dir        |-> TRUE,
      overwrite_cache             |-> TRUE ]

Max(a, b) == IF a >= b THEN a ELSE b

CeilDiv(a, b) == (a + b - 1) \div b

\* torch.distributed.get_world_size() of a distributed run.
WorldSize == MaxProcs

\* The token-level tensors of one feature over a two-token window: a
\* question token followed by a context token, nothing padded.
PlainTensors ==
    [input_ids |-> <<7, 8>>, input_mask |-> <<1, 1>>, segment_ids |-> <<0, 1>>,
     cls_index |-> 0, p_mask |-> <<1, 0>>]

\* A window whose second token is padding.
PaddedTensors ==
    [input_ids |-> <<7, 0>>, input_mask |-> <<1, 0>>, segment_ids |-> <<0, 0>>,
     cls_index |-> 0, p_mask |-> <<1, 1>>]

\* A SQuAD file, by its name and the tensors of the features it yields.
SquadFile(name, tensors) == [name |-> name, tensors |-> tensors]

\* unique_id of the first feature convert_examples_to_features builds.
UniqueIdBase == 1000000000

\* read_squad_examples followed by convert_examples_to_features: one feature
\* per window of the file, with consecutive unique ids.
ConvertExamplesToFeatures(file) ==
    [i \in 1..Len(file.tensors) |->
        [unique_id   |-> UniqueIdBase + i - 1,
         file        |-> file.name,
         input_ids   |-> file.tensors[i].input_ids,
         input_mask  |-> file.tensors[i].input_mask,
         segment_ids |-> file.tensors[i].segment_ids,
         cls_index   |-> file.tensors[i].cls_index,
         p_mask      |-> file.tensors[i].p_mask]]

\* The cached feature file on disk: missing, unreadable, or holding features.
NoCache == [state |-> "absent", features |-> <<>>]
CorruptCache == [state |-> "corrupt", features |-> <<>>]
Cached(fs) == [state |-> "ok", features |-> fs]

\* Lines 276-319, as the function of its arguments and of the cache file:
\* what it raises, the features behind the dataset it returns, and the
\* cache file it leaves.  torch.load stands in no try block.
LoadAndCacheExamples(input_file, evaluate, output_examples) ==
    IF cache_file.state # "absent" /\ ~args.overwrite_cache /\ ~output_examples
    THEN IF cache_file.state = "corrupt"
         THEN [raised |-> "UnpicklingError", features |-> <<>>,
               cache |-> cache_file]
         ELSE [raised |-> None, features |-> cache_file.features,
               cache |-> cache_file]
    ELSE LET fs == ConvertExamplesToFeatures(input_file)
         IN  [raised |-> None, features |-> fs,
              cache |-> IF args.local_rank \in {-1, 0} THEN Cached(fs)
                                                       ELSE cache_file]

\* The files save_pretrained and torch.save leave in a directory.
SavedFiles == {"pytorch_model.bin", "vocab.txt", "training_args.bin"}

\* A directory on disk: whether it exists, the files in it, and the global
\* steps g of its checkpoint-g sub-directories.
Dir(exists, files, steps) ==
    [exists |-> exists, files |-> files, checkpoints |-> steps]

\* os.listdir(d) is non-empty.
Listed(d) == d.files # {} \/ d.checkpoints # {}

ReaderIdle ==
    /\ args = DefaultArgs
    /\ output_dir = Dir(FALSE, {}, {})
    /\ cache_file = NoCache
    /\ model_updates = 0

\* A tensor argument that is None.
NoTensor == <<>>

InferIdle ==
    /\ infer_fn = "predict" /\ dev_file = SquadFile("dev.json", <<>>)
    /\ epc = "idle" /\ eerror = None
    /\ features = <<>> /\ dataset = <<>> /\ order = <<>> /\ pos = 0
    /\ model_calls = <<>> /\ all_results = <<>> /\ writes = 0
    /\ written = <<>> /\ returned = <<>> /\ predicted = <<>>

\* Before the aggregator has run: nothing given, nothing emitted.
NoMode == [version_2_with_negative |-> FALSE, cls_logits |-> <<>>]

NoAnswer == [text |-> <<>>, raised |-> None]

DecodeIdle ==
    /\ decoder = "standard"
    /\ example = [words |-> <<>>, features |-> <<>>]
    /\ limits = [n_best_size |-> 20, max_answer_length |-> 30, n_top |-> 5]
    /\ dpc = "idle" /\ nbest = <<>>
    /\ mode = NoMode /\ answer = NoAnswer

EvalIdle ==
    /\ output_path = <<"out">> /\ vpc = "idle" /\ verror = None
    /\ checkpoints = <<>> /\ evaluated = 0 /\ results = {}

FitIdle ==
    /\ train_file = SquadFile("train.json", <<>>)
    /\ fpc = "idle" /\ ferror = None /\ train_dataset = <<>>
    /\ t_total = 0 /\ epoch = 0 /\ step = 0 /\ global_step = 0
    /\ accum = 0 /\ applied = <<>>

(***************************************************************************)
(* Reader.__init__                                                         *)
(***************************************************************************)
\* The processes that exist in this run.
Active == IF world = 0 THEN {1} ELSE 1..world

\* self.local_rank of process p: -1 without a launcher, else its rank.
LocalRank(p) == IF world = 0 THEN -1 ELSE p - 1

\* Lines 482-490: the branch that initialises the process group.
JoinsGroup(p) == ~(LocalRank(p) = -1 \/ init_no_cuda)

\* Lines 481-490: device and distributed set-up.
SetupDevice(p) ==
    /\ p \in Active /\ ipc[p] = "setup"
    /\ computed' = [computed EXCEPT ![p] =
            @ \cup (IF JoinsGroup(p) THEN {"device", "process_group"}
                                     ELSE {"device"})]
    /\ ipc' = [ipc EXCEPT ![p] = "seed"]
    /\ UNCHANGED <<world, init_type, init_no_cuda, arrived, ierror>>
    /\ UNCHANGED notInitVars

\* A constructor without the barrier of lines 503-504.
SetSeed_NoBarrier(p) ==
    /\ p \in Active /\ ipc[p] = "seed"
    /\ computed' = [computed EXCEPT ![p] = @ \cup {"seed"}]
    /\ ipc' = [ipc EXCEPT ![p] = "classes"]
    /\ UNCHANGED <<world, init_type, init_no_cuda, arrived, ierror>>
    /\ UNCHANGED notInitVars

\* Line 500: set_seed(self); lines 503-504 choose the next position.
SetSeed(p) ==
    /\ p \in Active /\ ipc[p] = "seed"
    /\ computed' = [computed EXCEPT ![p] = @ \cup {"seed"}]
    /\ ipc' = [ipc EXCEPT ![p] =
            IF LocalRank(p) \notin {-1, 0} THEN "barrier_pre" ELSE "classes"]
    /\ UNCHANGED <<world, init_type, init_no_cuda, arrived, ierror>>
    /\ UNCHANGED notInitVars

\* Entering torch.distributed.barrier() at `at`; it raises when this process
\* never initialised the default process group.
EnterBarrier(p, at, waiting) ==
    /\ p \in Active /\ ipc[p] = at
    /\ IF "process_group" \in computed[p]
         THEN /\ arrived' = arrived \cup {p}
              /\ ipc' = [ipc EXCEPT ![p] = waiting]
              /\ computed' = [computed EXCEPT ![p] = @ \cup {"barrier"}]
              /\ UNCHANGED ierror
         ELSE /\ ipc' = [ipc EXCEPT ![p] = "error"]
              /\ ierror' = [ierror EXCEPT ![p] = "NoProcessGroup"]
              /\ UNCHANGED <<arrived, computed>>
    /\ UNCHANGED <<world, init_type, init_no_cuda>>
    /\ UNCHANGED notInitVars

\* Lines 503-504: every process but the first waits before loading.
BarrierBeforeLoad(p) == EnterBarrier(p, "barrier_pre", "wait_pre")

\* Lines 512-513: the first process waits once it has loaded.
BarrierAfterLoad(p) == EnterBarrier(p, "barrier_post", "wait_post")

\* The barrier opens when every process of the group is in it.
BarrierRelease ==
    /\ arrived # {} /\ arrived = Active
    /\ ipc' = [p \in Procs |->
                 IF ipc[p] = "wait_pre" THEN "classes"
                 ELSE IF ipc[p] = "wait_post" THEN "to_device"
                 ELSE ipc[p]]
    /\ arrived' = {}
    /\ UNCHANGED <<world, init_type, init_no_cuda, computed, ierror>>
    /\ UNCHANGED notInitVars

\* Lines 506-507: lower-case the model type and look its classes up.
LookupClasses(p) ==
    /\ p \in Active /\ ipc[p] = "classes"
    /\ IF init_type = None
         THEN /\ ipc' = [ipc EXCEPT ![p] = "error"]
              /\ ierror' = [ierror EXCEPT ![p] = "AttributeError"]
         ELSE IF Lower(init_type) \notin MODEL_CLASSES
         THEN /\ ipc' = [ipc EXCEPT ![p] = "error"]
              /\ ierror' = [ierror EXCEPT ![p] = "KeyError"]
         ELSE /\ ipc' = [ipc EXCEPT ![p] = "config"]
              /\ UNCHANGED ierror
    /\ UNCHANGED <<world, init_type, init_no_cuda, computed, arrived>>
    /\ UNCHANGED notInitVars

\* Line 508: config_class.from_pretrained.
LoadConfig(p) ==
    /\ p \in Active /\ ipc[p] = "config"
    /\ computed' = [computed EXCEPT ![p] = @ \cup {"config"}]
    /\ ipc' = [ipc EXCEPT ![p] = "tokenizer"]
    /\ UNCHANGED <<world, init_type, init_no_cuda, arrived, ierror>>
    /\ UNCHANGED notInitVars

\* Line 509: tokenizer_class.from_pretrained.
LoadTokenizer(p) ==
    /\ p \in Active /\ ipc[p] = "tokenizer"
    /\ computed' = [computed EXCEPT ![p] = @ \cup {"tokenizer"}]
    /\ ipc' = [ipc EXCEPT ![p] = "model"]
    /\ UNCHANGED <<world, init_type, init_no_cuda, arrived, ierror>>
    /\ UNCHANGED notInitVars

\* Line 510: model_class.from_pretrained; line 512 chooses the next position.
LoadModel(p) ==
    /\ p \in Active /\ ipc[p] = "model"
    /\ computed' = [computed EXCEPT ![p] = @ \cup {"model"}]
    /\ ipc' = [ipc EXCEPT ![p] =
            IF LocalRank(p) = 0 THEN "barrier_post" ELSE "to_device"]
    /\ UNCHANGED <<world, init_type, init_no_cuda, arrived, ierror>>
    /\ UNCHANGED notInitVars

\* Lines 515-523: move the model to the device; the constructor returns.
ModelToDevice(p) ==
    /\ p \in Active /\ ipc[p] = "to_device"
    /\ computed' = [computed EXCEPT ![p] = @ \cup {"to_device"}]
    /\ ipc' = [ipc EXCEPT ![p] = "done"]
    /\ UNCHANGED <<world, init_type, init_no_cuda, arrived, ierror>>
    /\ UNCHANGED notInitVars

InitIdle ==
    /\ world = 0 /\ init_type = "bert" /\ init_no_cuda = TRUE
    /\ ipc = [p \in Procs |-> "idle"]
    /\ computed = [p \in Procs |-> {}]
    /\ arrived = {}
    /\ ierror = [p \in Procs |-> None]

InitInit ==
    /\ ReaderIdle /\ FitIdle /\ InferIdle /\ EvalIdle /\ DecodeIdle
    /\ world \in 0..MaxProcs
    /\ init_type \in ModelTypeInputs
    /\ init_no_cuda \in BOOLEAN
    /\ ipc = [p \in Procs |-> IF p \in Active THEN "setup" ELSE "idle"]
    /\ computed = [p \in Procs |-> {}]
    /\ arrived = {}
    /\ ierror = [p \in Procs |-> None]

NextInit ==
    \/ \E p \in Procs : SetupDevice(p)
    \/ \E p \in Procs : SetSeed(p)
    \/ \E p \in Procs : BarrierBeforeLoad(p)
    \/ \E p \in Procs : LookupClasses(p)
    \/ \E p \in Procs : LoadConfig(p)
    \/ \E p \in Procs : LoadTokenizer(p)
    \/ \E p \in Procs : LoadModel(p)
    \/ \E p \in Procs : BarrierAfterLoad(p)
    \/ BarrierRelease
    \/ \E p \in Procs : ModelToDevice(p)

SpecInit == InitInit /\ [][NextInit]_vars

(***************************************************************************)
(* Reader.fit and train                                                    *)
(***************************************************************************)
\* The largest number of features of the training file.
MaxFeatures == 3

\* The largest num_train_epochs.
MaxEpochs == 2

\* evaluate's required parameters (line 200) and the positional arguments
\* train passes it (line 170).
EvaluateParams == <<"input_file", "args", "model", "tokenizer">>
TrainEvaluateCall == <<"args", "model", "tokenizer">>

\* A Python call binds when every required parameter gets an argument.
CallBinds(params, passed) == Len(passed) >= Len(params)

\* Line 81.
TrainBatchSize == args.per_gpu_train_batch_size * Max(1, args.n_gpu)

\* len(train_dataloader), lines 82-83: RandomSampler draws every feature,
\* DistributedSampler this process's share of them.
LenTrainDataloader ==
    LET n == Len(train_dataset)
        samples == IF args.local_rank = -1 THEN n ELSE CeilDiv(n, WorldSize)
    IN  CeilDiv(samples, TrainBatchSize)

\* The check with the `not` before overwrite_output_dir lost.
OutputDirRefused_NotDropped ==
    output_dir.exists /\ Listed(output_dir) /\ args.overwrite_output_dir

\* Lines 527-528: the output-directory check.
OutputDirRefused ==
    output_dir.exists /\ Listed(output_dir) /\ ~args.overwrite_output_dir

FitRaise(e) ==
    /\ fpc' = "error" /\ ferror' = e

\* Lines 527-528.
FitCheckOutputDir ==
    /\ fpc = "fit"
    /\ IF OutputDirRefused THEN FitRaise("ValueError")
                           ELSE fpc' = "load" /\ UNCHANGED ferror
    /\ UNCHANGED <<readerVars, train_file, train_dataset, t_total, epoch, step,
                   global_step, accum, applied>>
    /\ UNCHANGED notFitVars

\* Line 530: load_and_cache_examples(X, evaluate=False, output_examples=False).
FitLoadAndCache ==
    /\ fpc = "load"
    /\ LET r == LoadAndCacheExamples(train_file, FALSE, FALSE) IN
         /\ cache_file' = r.cache
         /\ IF r.raised # None
              THEN FitRaise(r.raised) /\ UNCHANGED train_dataset
              ELSE /\ train_dataset' = r.features
                   /\ fpc' = "train_init" /\ UNCHANGED ferror
    /\ UNCHANGED <<args, output_dir, model_updates, train_file, t_total, epoch,
                   step, global_step, accum, applied>>
    /\ UNCHANGED notFitVars

\* Lines 81-89 and 126-130: the step totals and the loop's initial state.
TrainInit ==
    /\ fpc = "train_init"
    /\ LET len == LenTrainDataloader
           gas == args.gradient_accumulation_steps
       IN  IF args.max_steps > 0 /\ len \div gas = 0
           THEN /\ FitRaise("ZeroDivisionError")
                /\ UNCHANGED <<args, t_total>>
           ELSE /\ t_total' = IF args.max_steps > 0
                                THEN args.max_steps
                                ELSE (len \div gas) * args.num_train_epochs
                /\ args' = IF args.max_steps > 0
                             THEN [args EXCEPT !.num_train_epochs =
                                       args.max_steps \div (len \div gas) + 1]
                             ELSE args
                /\ fpc' = IF args'.num_train_epochs = 0 \/ len = 0
                            THEN "train_return" ELSE "train_loop"
                /\ UNCHANGED ferror
    /\ global_step' = 0 /\ accum' = 0 /\ epoch' = 0 /\ step' = 0
    /\ applied' = <<>>
    /\ UNCHANGED <<output_dir, cache_file, model_updates, train_file,
                   train_dataset>>
    /\ UNCHANGED notFitVars

\* Lines 133-192: one batch of the epoch, and the end of the epoch after
\* its last batch.
TrainBatch ==
    /\ fpc = "train_loop"
    /\ LET len == LenTrainDataloader
           gas == args.gradient_accumulation_steps
           stepping == (step + 1) % gas = 0
           gs == IF stepping THEN global_step + 1 ELSE global_step
           logs == /\ stepping /\ args.local_rank \in {-1, 0}
                   /\ args.logging_steps > 0 /\ gs % args.logging_steps = 0
           evals == logs /\ args.local_rank = -1 /\ args.evaluate_during_training
           raises == evals /\ ~CallBinds(EvaluateParams, TrainEvaluateCall)
           saves == /\ stepping /\ ~raises /\ args.local_rank \in {-1, 0}
                    /\ args.save_steps > 0 /\ gs % args.save_steps = 0
           stop == args.max_steps > 0 /\ gs > args.max_steps
       IN  /\ accum' = IF stepping THEN 0 ELSE accum + 1
           /\ applied' = IF stepping THEN Append(applied, accum + 1) ELSE applied
           /\ global_step' = gs
           /\ model_updates' = IF stepping THEN model_updates + 1
                                           ELSE model_updates
           /\ output_dir' = IF saves
                THEN Dir(TRUE, output_dir.files,
                         output_dir.checkpoints \cup {gs})
                ELSE output_dir
           /\ IF raises
                THEN FitRaise("TypeError") /\ UNCHANGED <<epoch, step>>
              ELSE IF stop
                THEN fpc' = "train_return" /\ UNCHANGED <<ferror, epoch, step>>
              ELSE IF step + 1 < len
                THEN step' = step + 1 /\ UNCHANGED <<fpc, ferror, epoch>>
              ELSE /\ epoch' = epoch + 1 /\ step' = 0
                   /\ fpc' = IF epoch + 1 < args.num_train_epochs
                               THEN "train_loop" ELSE "train_return"
                   /\ UNCHANGED ferror
    /\ UNCHANGED <<args, cache_file, train_file, train_dataset, t_total>>
    /\ UNCHANGED notFitVars

\* Lines 194-197: the average loss tr_loss / global_step.
TrainReturn ==
    /\ fpc = "train_return"
    /\ IF global_step = 0 THEN FitRaise("ZeroDivisionError")
                          ELSE fpc' = "save" /\ UNCHANGED ferror
    /\ UNCHANGED <<readerVars, train_file, train_dataset, t_total, epoch, step,
                   global_step, accum, applied>>
    /\ UNCHANGED notFitVars

\* Lines 535-550: the first process saves model, tokenizer and parameters.
FitSave ==
    /\ fpc = "save"
    /\ output_dir' = IF args.local_rank \in {-1, 0}
         THEN Dir(TRUE, output_dir.files \cup SavedFiles,
                  output_dir.checkpoints)
         ELSE output_dir
    /\ fpc' = "done"
    /\ UNCHANGED <<args, cache_file, model_updates, train_file, ferror,
                   train_dataset, t_total, epoch, step, global_step, accum,
                   applied>>
    /\ UNCHANGED notFitVars

\* The hyperparameters fit is run with.  A Reader with local_rank >= 0 exists
\* only where the constructor initialised the process group.
FitArgs ==
    { [DefaultArgs EXCEPT
          !.local_rank = lr, !.overwrite_output_dir = ood,
          !.overwrite_cache = oc, !.evaluate_during_training = edt,
          !.per_gpu_train_batch_size = bs,
          !.gradient_accumulation_steps = gas, !.num_train_epochs = ep,
          !.max_steps = ms, !.logging_steps = ls, !.save_steps = ss] :
        lr \in -1..(WorldSize - 1), ood \in BOOLEAN, oc \in BOOLEAN,
        edt \in BOOLEAN, bs \in {1, 2}, gas \in {1, 2}, ep \in 0..MaxEpochs,
        ms \in {-1, 1, 2}, ls \in {0, 1, 2}, ss \in {0, 2} }

\* output_dir before fit: missing, empty, or holding an earlier run.
OutputDirs ==
    { Dir(FALSE, {}, {}), Dir(TRUE, {}, {}), Dir(TRUE, SavedFiles, {}) }

TrainFiles ==
    { SquadFile("train.json", [i \in 1..n |-> PlainTensors]) :
        n \in 0..MaxFeatures }

\* The cached feature file before fit: missing, unreadable, written by an
\* earlier run on the same file, or by a run on another file.
TrainCaches(file) ==
    { NoCache, CorruptCache, Cached(ConvertExamplesToFeatures(file)),
      Cached(ConvertExamplesToFeatures(SquadFile("old.json", <<PlainTensors>>))) }

InitFit ==
    /\ InitIdle /\ InferIdle /\ EvalIdle /\ DecodeIdle
    /\ args \in FitArgs
    /\ output_dir \in OutputDirs
    /\ train_file \in TrainFiles
    /\ cache_file \in TrainCaches(train_file)
    /\ model_updates = 0
    /\ fpc = "fit" /\ ferror = None /\ train_dataset = <<>>
    /\ t_total = 0 /\ epoch = 0 /\ step = 0 /\ global_step = 0
    /\ accum = 0 /\ applied = <<>>

NextFit ==
    \/ FitCheckOutputDir
    \/ FitLoadAndCache
    \/ TrainInit
    \/ TrainBatch
    \/ TrainReturn
    \/ FitSave

SpecFit == InitFit /\ [][NextFit]_vars

(***************************************************************************)
(* evaluate(), predict() and Reader.predict                                *)
(***************************************************************************)
\* The largest number of features of the file inference runs on.
MaxDevFeatures == 3

\* Lines 301-309: the row of the evaluation TensorDataset built from
\* feature i: (all_input_ids, all_input_mask, all_segment_ids,
\* all_example_index, all_cls_index, all_p_mask).
EvalRow(fs, i) ==
    << fs[i].input_ids, fs[i].input_mask, fs[i].segment_ids, i - 1,
       fs[i].cls_index, fs[i].p_mask >>

\* batch[k] of the code, for one row of the batch.
Batch(row, k) == row[k + 1]

\* The cls_index and p_mask arguments of lines 225-227 and 346-348.
ExtendedInputs(row) ==
    IF args.model_type \in ExtendedTypes
    THEN [cls_index |-> Batch(row, 4), p_mask |-> Batch(row, 5)]
    ELSE [cls_index |-> -1, p_mask |-> NoTensor]

\* Lines 220-227: the keyword arguments evaluate() builds from a batch.
EvaluateInputs(row) ==
    [ input_ids      |-> Batch(row, 0),
      attention_mask |-> Batch(row, 1),
      token_type_ids |-> IF args.model_type = "xlm" THEN NoTensor
                                                    ELSE Batch(row, 2),
      extended       |-> ExtendedInputs(row) ]

\* Lines 342-348: the keyword arguments predict() builds from a batch.
PredictInputs(row) ==
    [ input_ids      |-> Batch(row, 0),
      token_type_ids |-> IF args.model_type = "xlm" THEN NoTensor
                                                    ELSE Batch(row, 1),
      attention_mask |-> Batch(row, 2),
      extended       |-> ExtendedInputs(row) ]

ModelInputs(row) ==
    IF infer_fn = "evaluate" THEN EvaluateInputs(row) ELSE PredictInputs(row)

\* Lines 230-245 and 351-366: the result appended for one row of a batch.
ResultOf(row) ==
    [ type      |-> IF args.model_type \in ExtendedTypes
                      THEN "RawResultExtended" ELSE "RawResult",
      unique_id |-> features[Batch(row, 3) + 1].unique_id ]

\* SequentialSampler: every index, in order.
SequentialOrder(n) == [i \in 1..n |-> i - 1]

\* The shuffles of the indices 0..n-1.
Shuffles(n) ==
    { p \in [1..n -> 0..(n - 1)] : \A i, j \in 1..n : p[i] = p[j] => i = j }

\* DistributedSampler for process `rank` of `replicas`: a shuffle of the
\* indices, padded from its own start to a multiple of the number of
\* processes, of which the process takes every replicas-th from its rank.
DistributedOrders(n, replicas, rank) ==
    LET share == CeilDiv(n, replicas) IN
    { [k \in 1..share |-> p[((rank + (k - 1) * replicas) % n) + 1]] :
        p \in Shuffles(n) }

\* Lines 208 and 330.
EvalSamplerOrders(n) ==
    IF args.local_rank = -1 THEN {SequentialOrder(n)}
    ELSE DistributedOrders(n, world, args.local_rank)

\* Lines 206 and 328.
EvalBatchSize == args.per_gpu_eval_batch_size * Max(1, args.n_gpu)

\* The writer call indented into the loop: it follows every batch.
AfterBatch_InsideLoop(consumed) == "write"

\* The loop of lines 216 and 338 ends after the last batch of the loader.
AfterBatch(consumed) == IF consumed < Len(order) THEN "loop" ELSE "write"

\* Lines 201-209 and 323-331: the features, the output directory and the
\* data loader.
InferLoad ==
    /\ epc = "start"
    /\ LET r == LoadAndCacheExamples(dev_file, TRUE, TRUE) IN
         /\ cache_file' = r.cache
         /\ IF r.raised # None
              THEN /\ epc' = "error" /\ eerror' = r.raised
                   /\ UNCHANGED <<features, dataset, order, output_dir>>
              ELSE /\ features' = r.features
                   /\ dataset' = [i \in 1..Len(r.features) |->
                                     EvalRow(r.features, i)]
                   /\ output_dir' =
                        IF ~output_dir.exists /\ args.local_rank \in {-1, 0}
                        THEN Dir(TRUE, {}, {}) ELSE output_dir
                   /\ order' \in EvalSamplerOrders(Len(r.features))
                   /\ epc' = IF Len(order') > 0 THEN "loop" ELSE "write"
                   /\ UNCHANGED eerror
    /\ pos' = 0 /\ all_results' = <<>> /\ model_calls' = <<>>
    /\ UNCHANGED <<args, model_updates, infer_fn, dev_file, writes, written,
                   returned, predicted, world>>
    /\ UNCHANGED notInferVars

\* Lines 216-245 and 338-366: one batch through the model and its results
\* appended to all_results.
InferBatch ==
    /\ epc = "loop"
    /\ LET last == IF pos + EvalBatchSize < Len(order)
                     THEN pos + EvalBatchSize ELSE Len(order)
           rows == [k \in 1..(last - pos) |-> dataset[order[pos + k] + 1]]
       IN  /\ model_calls' = model_calls \o
                    [k \in 1..Len(rows) |-> ModelInputs(rows[k])]
           /\ all_results' = all_results \o
                    [k \in 1..Len(rows) |-> ResultOf(rows[k])]
           /\ pos' = last
           /\ epc' = AfterBatch(last)
    /\ UNCHANGED <<readerVars, infer_fn, dev_file, eerror, features, dataset,
                   order, writes, written, returned, predicted, world>>
    /\ UNCHANGED notInferVars

\* Lines 228 and 349: the forward pass of a batch raises.
InferBatchRaises ==
    /\ epc = "loop"
    /\ epc' = "error" /\ eerror' = "RuntimeError"
    /\ UNCHANGED <<readerVars, infer_fn, dev_file, features, dataset, order,
                   pos, model_calls, all_results, writes, written, returned,
                   predicted, world>>
    /\ UNCHANGED notInferVars

\* The prediction files of lines 248-253 and 369-371.
PredictionFiles ==
    {"predictions_.json", "nbest_predictions_.json"}
        \cup (IF infer_fn = "predict" \/ args.version_2_with_negative
                THEN {"null_odds_.json"} ELSE {})

\* What write_predictions and write_predictions_extended return: the
\* evaluation details and the text of the final prediction.
WriterResult ==
    [out_eval |-> "details", final_prediction |-> "January 2016"]

\* Lines 373-386: what predict() makes of the writer's result r.  The bert
\* branch returns the result as it got it; the extended branch unpacks it
\* and returns its second element alone.
PredictReturn(r) ==
    IF args.model_type \in ExtendedTypes
    THEN <<r.final_prediction>>
    ELSE <<r.out_eval, r.final_prediction>>

\* Lines 247-273 and 368-386: the predictions are decoded and written;
\* evaluate() scores them, predict() returns.
InferWrite ==
    /\ epc = "write"
    /\ writes' = writes + 1
    /\ written' = <<WriterResult.out_eval, WriterResult.final_prediction>>
    /\ output_dir' = Dir(output_dir.exists,
                         output_dir.files \cup PredictionFiles,
                         output_dir.checkpoints)
    /\ IF infer_fn = "predict"
         THEN returned' = PredictReturn(WriterResult) /\ epc' = "returned"
         ELSE returned' = <<"exact", "f1">> /\ epc' = "done"
    /\ UNCHANGED <<args, cache_file, model_updates, infer_fn, dev_file, eerror,
                   features, dataset, order, pos, model_calls, all_results,
                   predicted, world>>
    /\ UNCHANGED notInferVars

\* Lines 582-584: Reader.predict unpacks what predict() returned into
\* out_eval and final_prediction.
ReaderPredictReturn ==
    /\ epc = "returned"
    /\ IF Len(returned) = 2
         THEN predicted' = returned /\ epc' = "done" /\ UNCHANGED eerror
         ELSE epc' = "error" /\ eerror' = "ValueError" /\ UNCHANGED predicted
    /\ UNCHANGED <<readerVars, infer_fn, dev_file, features, dataset, order,
                   pos, model_calls, all_results, writes, written, returned,
                   world>>
    /\ UNCHANGED notInferVars

\* The files inference runs on: every sequence of windows up to the bound.
DevFiles ==
    { SquadFile("dev.json", t) :
        t \in UNION { [1..n -> {PlainTensors, PaddedTensors}] :
                        n \in 0..MaxDevFeatures } }

\* The hyperparameters inference is run with.
InferArgs(w) ==
    { [DefaultArgs EXCEPT !.model_type = mt, !.local_rank = lr,
                          !.per_gpu_eval_batch_size = bs,
                          !.version_2_with_negative = v2] :
        mt \in MODEL_CLASSES, bs \in {1, 2}, v2 \in BOOLEAN,
        lr \in IF w = 0 THEN {-1} ELSE 0..(w - 1) }

InitInfer ==
    /\ FitIdle /\ EvalIdle /\ DecodeIdle
    /\ world \in 0..MaxProcs
    /\ init_type = "bert" /\ init_no_cuda = (world = 0)
    /\ ipc = [p \in Procs |-> "idle"] /\ computed = [p \in Procs |-> {}]
    /\ arrived = {} /\ ierror = [p \in Procs |-> None]
    /\ args \in InferArgs(world)
    /\ output_dir \in {Dir(FALSE, {}, {}), Dir(TRUE, SavedFiles, {})}
    /\ cache_file \in {NoCache, CorruptCache}
    /\ model_updates = 0
    /\ infer_fn \in {"evaluate", "predict"}
    /\ dev_file \in DevFiles
    /\ epc = "start" /\ eerror = None
    /\ features = <<>> /\ dataset = <<>> /\ order = <<>> /\ pos = 0
    /\ model_calls = <<>> /\ all_results = <<>> /\ writes = 0
    /\ written = <<>> /\ returned = <<>> /\ predicted = <<>>

NextInfer ==
    \/ InferLoad
    \/ InferBatch
    \/ InferBatchRaises
    \/ InferWrite
    \/ ReaderPredictReturn

SpecInfer == InitInfer /\ [][NextInfer]_vars

(***************************************************************************)
(* Reader.evaluate                                                         *)
(***************************************************************************)
\* The largest global step a checkpoint sub-directory is named after.
MaxCheckpoint == 3

\* The metrics evaluate_on_squad reports.
Metrics == {"exact", "f1"}

\* '{}'.format(g) for the global steps at hand.
Str(g) == <<"0", "1", "2", "3", "4", "5", "6", "7", "8", "9">>[g + 1]

\* os.path.join(args.output_dir, 'checkpoint-{}'.format(g)), line 179.
CheckpointPath(path, g) == path \o <<"/checkpoint", "-", Str(g)>>

\* checkpoint.split('-')[-1]: what follows the last "-" of the path.
RECURSIVE SplitLast(_)
SplitLast(path) ==
    IF path = <<>> THEN <<>>
    ELSE IF path[Len(path)] = "-" THEN <<>>
    ELSE LET rest == SplitLast(SubSeq(path, 1, Len(path) - 1))
         IN  IF \E i \in 1..(Len(path) - 1) : path[i] = "-"
               THEN Append(rest, path[Len(path)])
               ELSE path

\* The steps of a set in ascending order.
RECURSIVE Ascending(_)
Ascending(steps) ==
    IF steps = {} THEN <<>>
    ELSE LET least == CHOOSE g \in steps : \A h \in steps : g <= h
         IN  <<least>> \o Ascending(steps \ {least})

\* Line 559: the directories under output_dir that hold WEIGHTS_NAME, in
\* the order of their sorted paths: "/checkpoint-g/..." sorts before
\* "/pytorch_model.bin".
GlobCheckpoints ==
    LET steps == Ascending(output_dir.checkpoints) IN
    [i \in 1..Len(steps) |-> CheckpointPath(output_path, steps[i])]
        \o (IF "pytorch_model.bin" \in output_dir.files
              THEN <<output_path>> ELSE <<>>)

\* The checkpoint at this path holds a model that from_pretrained can load.
HoldsModel(path) ==
    \/ path = output_path /\ "pytorch_model.bin" \in output_dir.files
    \/ \E g \in output_dir.checkpoints : path = CheckpointPath(output_path, g)

\* Line 566.
GlobalStepOf(checkpoint) ==
    IF Len(checkpoints) > 1 THEN SplitLast(checkpoint) ELSE <<>>

\* Lines 573-574: the metrics of one checkpoint renamed and merged into
\* results, as dict.update does.
UpdateResults(old, checkpoint) ==
    LET suffix == GlobalStepOf(checkpoint)
        new == { [key |-> m, suffix |-> suffix, source |-> checkpoint] :
                    m \in Metrics }
    IN  { e \in old : \A n \in new : ~(e.key = n.key /\ e.suffix = n.suffix) }
            \cup new

\* Lines 555-562: the checkpoints to evaluate.
EvaluateStart ==
    /\ vpc = "start"
    /\ results' = {}
    /\ IF args.local_rank \in {-1, 0}
         THEN /\ checkpoints' = IF args.eval_all_checkpoints
                                  THEN GlobCheckpoints ELSE <<output_path>>
              /\ vpc' = "loop"
         ELSE checkpoints' = <<>> /\ vpc' = "return"
    /\ evaluated' = 0
    /\ UNCHANGED <<readerVars, output_path, verror>>
    /\ UNCHANGED notEvalVars

\* Lines 564-574: reload the model of the next checkpoint, evaluate it and
\* merge its metrics; after the last one, go on to return.
EvaluateCheckpoint ==
    /\ vpc = "loop"
    /\ IF evaluated = Len(checkpoints)
         THEN vpc' = "return" /\ UNCHANGED <<verror, evaluated, results>>
         ELSE LET checkpoint == checkpoints[evaluated + 1] IN
              IF ~HoldsModel(checkpoint)
              THEN /\ vpc' = "error" /\ verror' = "OSError"
                   /\ UNCHANGED <<evaluated, results>>
              ELSE /\ results' = UpdateResults(results, checkpoint)
                   /\ evaluated' = evaluated + 1
                   /\ UNCHANGED <<vpc, verror>>
    /\ UNCHANGED <<readerVars, output_path, checkpoints>>
    /\ UNCHANGED notEvalVars

\* Lines 576-578.
EvaluateReturn ==
    /\ vpc = "return"
    /\ vpc' = "done"
    /\ UNCHANGED <<readerVars, output_path, verror, checkpoints, evaluated,
                   results>>
    /\ UNCHANGED notEvalVars

\* The names output_dir is given.
OutputPaths == { <<"out">>, <<"run", "-", "2">>, <<"squad", "-", "v1">> }

InitEval ==
    /\ InitIdle /\ FitIdle /\ InferIdle /\ DecodeIdle
    /\ args \in { [DefaultArgs EXCEPT !.local_rank = lr,
                                      !.eval_all_checkpoints = all] :
                    lr \in -1..(MaxProcs - 1), all \in BOOLEAN }
    /\ output_path \in OutputPaths
    /\ output_dir \in { Dir(TRUE, f, c) : f \in {{}, SavedFiles},
                                          c \in SUBSET (1..MaxCheckpoint) }
    /\ cache_file = NoCache /\ model_updates = 0
    /\ vpc = "start" /\ verror = None
    /\ checkpoints = <<>> /\ evaluated = 0 /\ results = {}

NextEval ==
    \/ EvaluateStart
    \/ EvaluateCheckpoint
    \/ EvaluateReturn

SpecEval == InitEval /\ [][NextEval]_vars

(***************************************************************************)
(* The span decoders (utils_squad: write_predictions and                   *)
(* write_predictions_extended), after sections 4.2 - 4.4 of the design.    *)
(* Token positions count from 0 as in the code; position p of a tensor t   *)
(* is t[p + 1].                                                            *)
(***************************************************************************)
\* The largest logit (or log-probability) of a position; the smallest is 0.
MaxLogit == 1

\* The largest n_best_size, beam width and max_answer_length.
MaxNBest == 2

\* The token positions of a window: the classification token, then two
\* tokens of context or padding.
Positions == 0..2

At(t, p) == t[p + 1]

\* The positions of a window ordered by descending value, ties by position.
RECURSIVE Ranked(_, _)
Ranked(values, left) ==
    IF left = {} THEN <<>>
    ELSE LET best == CHOOSE p \in left : \A q \in left :
                        \/ At(values, p) > At(values, q)
                        \/ At(values, p) = At(values, q) /\ p <= q
         IN  <<best>> \o Ranked(values, left \ {best})

\* The k highest-valued positions of a window.
TopIndexes(values, k) ==
    LET r == Ranked(values, Positions)
    IN  SubSeq(r, 1, IF k < Len(r) THEN k ELSE Len(r))

\* The filters without the length check.
ValidSpan_NoLengthCheck(f, start, end) ==
    /\ At(f.p_mask, start) = 0 /\ At(f.p_mask, end) = 0
    /\ end >= start

\* Section 4.2: a pair is discarded where p_mask marks either position as
\* non-context, where end < start, or where the span is longer than
\* max_answer_length.
ValidSpan(f, start, end) ==
    /\ At(f.p_mask, start) = 0 /\ At(f.p_mask, end) = 0
    /\ end >= start
    /\ end - start + 1 <= limits.max_answer_length

\* Lower-casing of a word of the text.
NormalizeWord(w) == IF w = "A" THEN "a" ELSE w

\* Section 4.4: the text of a span, through token_to_orig_map, normalized.
SpanText(f, start, end) ==
    LET first == At(f.token_to_orig_map, start)
        last == At(f.token_to_orig_map, end)
    IN  [i \in 1..(last - first + 1) |->
            NormalizeWord(example.words[first + i])]

\* The candidates of feature number n: the cross product of its k best
\* starts and k best ends, filtered, each scored start + end.
FeatureCandidates(n, k) ==
    LET f == example.features[n]
        starts == TopIndexes(f.start_logits, k)
        ends == TopIndexes(f.end_logits, k)
        pair(i) == [feature |-> n,
                    start |-> starts[((i - 1) \div Len(ends)) + 1],
                    end |-> ends[((i - 1) % Len(ends)) + 1]]
        all == [i \in 1..(Len(starts) * Len(ends)) |-> pair(i)]
        kept == SelectSeq(all, LAMBDA c : ValidSpan(f, c.start, c.end))
    IN  [i \in 1..Len(kept) |->
            [feature |-> n, start |-> kept[i].start, end |-> kept[i].end,
             score |-> At(f.start_logits, kept[i].start)
                        + At(f.end_logits, kept[i].end),
             text |-> SpanText(f, kept[i].start, kept[i].end)]]

\* The candidates of all the features of the Example, in feature order.
RECURSIVE AllCandidates(_, _)
AllCandidates(n, k) ==
    IF n > Len(example.features) THEN <<>>
    ELSE FeatureCandidates(n, k) \o AllCandidates(n + 1, k)

\* A stable sort by descending score.
RECURSIVE SortByScore(_)
SortByScore(cs) ==
    IF cs = <<>> THEN <<>>
    ELSE LET i == CHOOSE i \in 1..Len(cs) :
                    /\ \A j \in 1..Len(cs) : cs[i].score >= cs[j].score
                    /\ \A j \in 1..(i - 1) : cs[j].score < cs[i].score
         IN  <<cs[i]>> \o SortByScore(SubSeq(cs, 1, i - 1)
                                        \o SubSeq(cs, i + 1, Len(cs)))

\* Deduplication by text: the first entry of each text is kept.
RECURSIVE Dedupe(_, _)
Dedupe(cs, seen) ==
    IF cs = <<>> THEN <<>>
    ELSE IF cs[1].text \in seen THEN Dedupe(Tail(cs), seen)
    ELSE <<cs[1]>> \o Dedupe(Tail(cs), seen \cup {cs[1].text})

\* A list deduplicated in feature order first, and sorted afterwards.
NBest_DedupeBeforeSort(k) ==
    LET ranked == SortByScore(Dedupe(AllCandidates(1, k), {}))
    IN  SubSeq(ranked, 1, IF limits.n_best_size < Len(ranked)
                            THEN limits.n_best_size ELSE Len(ranked))

\* Sections 4.2 and 4.3: sorted, deduplicated, the top n_best_size kept.
NBest(k) ==
    LET ranked == Dedupe(SortByScore(AllCandidates(1, k)), {})
    IN  SubSeq(ranked, 1, IF limits.n_best_size < Len(ranked)
                            THEN limits.n_best_size ELSE Len(ranked))

\* Section 4.2: the standard decoder takes the n_best_size best starts and
\* ends of each feature.
DecodeStandard ==
    /\ dpc = "ready" /\ decoder = "standard"
    /\ nbest' = NBest(limits.n_best_size)
    /\ dpc' = "decoded"
    /\ UNCHANGED <<decoder, example, limits, mode, answer>>
    /\ UNCHANGED notDecodeVars

\* Section 4.3: the extended decoder takes the K starts and K ends the model
\* returned for each feature.
DecodeExtended ==
    /\ dpc = "ready" /\ decoder = "extended"
    /\ nbest' = NBest(limits.n_top)
    /\ dpc' = "decoded"
    /\ UNCHANGED <<decoder, example, limits, mode, answer>>
    /\ UNCHANGED notDecodeVars

Logits == [1..3 -> 0..MaxLogit]

\* The first window of a three-word context: its two context tokens are
\* words 0 and 1; the second of them may be padding, or the window may
\* hold no context at all.
FirstWindows ==
    { [p_mask |-> pm, token_to_orig_map |-> <<0, 0, 1>>,
       start_logits |-> sl, end_logits |-> el] :
        pm \in {<<1, 0, 0>>, <<1, 0, 1>>, <<1, 1, 1>>},
        sl \in Logits, el \in Logits }

\* The window one stride further: its context tokens are words 1 and 2.
SecondWindows ==
    { [p_mask |-> <<1, 0, 0>>, token_to_orig_map |-> <<0, 1, 2>>,
       start_logits |-> sl, end_logits |-> el] :
        sl \in {<<0, 1, 0>>, <<0, 0, 1>>}, el \in {<<0, 1, 0>>, <<0, 0, 1>>} }

Examples ==
    { [words |-> w, features |-> fs] :
        w \in {<<"a", "b", "c">>, <<"A", "b", "a">>},
        fs \in { <<f>> : f \in FirstWindows }
                 \cup { <<f, g>> : f \in FirstWindows, g \in SecondWindows } }

InitDecode ==
    /\ InitIdle /\ ReaderIdle /\ FitIdle /\ InferIdle /\ EvalIdle
    /\ decoder \in {"standard", "extended"}
    /\ example \in Examples
    /\ limits \in [n_best_size : 1..MaxNBest, max_answer_length : 1..MaxNBest,
                   n_top : 1..MaxNBest]
    /\ dpc = "ready" /\ nbest = <<>>
    /\ mode = NoMode /\ answer = NoAnswer

NextDecode ==
    \/ DecodeStandard
    \/ DecodeExtended

SpecDecode == InitDecode /\ [][NextDecode]_vars

(***************************************************************************)
(* The Answer Aggregator, after section 4.4 and the decoder-level rule of  *)
(* section 7 of the design.  The empty string is the empty word sequence.  *)
(***************************************************************************)
\* Reader.__init__'s default null_score_diff_threshold (0.0).
null_score_diff_threshold == 0

\* The position of the classification token in every window.
cls_index == 0

MinOf(S) == CHOOSE x \in S : \A y \in S : x <= y

\* Sections 4.2 and 4.3: the null score of the Example is the minimum over
\* its features, of start + end logit at the classification token in the
\* standard decoder and of cls_logits in the extended one.
NullScore(cls) ==
    LET fs == example.features
    IN  IF decoder = "standard"
        THEN MinOf({ At(fs[n].start_logits, cls_index)
                        + At(fs[n].end_logits, cls_index) : n \in 1..Len(fs) })
        ELSE MinOf({ cls[n] : n \in 1..Len(fs) })

\* An aggregator that takes the best entry of a list that has none.
FinalAnswer_FailsOnEmpty(v2, null_score) ==
    IF nbest = <<>> THEN [text |-> <<>>, raised |-> "IndexError"]
    ELSE IF v2 /\ null_score - nbest[1].score > null_score_diff_threshold
    THEN [text |-> <<>>, raised |-> None]
    ELSE [text |-> nbest[1].text, raised |-> None]

\* Section 7: with no valid candidate the null result is emitted.  Section
\* 4.4: in 2.0 mode the empty string is emitted where null_score minus the
\* best non-null score is above the threshold; otherwise the best text.
FinalAnswer(v2, null_score) ==
    IF nbest = <<>> THEN [text |-> <<>>, raised |-> None]
    ELSE IF v2 /\ null_score - nbest[1].score > null_score_diff_threshold
    THEN [text |-> <<>>, raised |-> None]
    ELSE [text |-> nbest[1].text, raised |-> None]

\* The cls_logits the extended model returned with each feature: any value
\* for the first window, the largest for a later one.  The standard model
\* returns none.
ClsLogits ==
    IF decoder = "standard" THEN {<<>>}
    ELSE { [n \in 1..Len(example.features) |-> IF n = 1 THEN c ELSE MaxLogit] :
            c \in 0..MaxLogit }

Aggregate ==
    /\ dpc = "decoded"
    /\ \E v2 \in BOOLEAN, cls \in ClsLogits :
        /\ mode' = [version_2_with_negative |-> v2, cls_logits |-> cls]
        /\ answer' = FinalAnswer(v2, NullScore(cls))
    /\ dpc' = "answered"
    /\ UNCHANGED <<decoder, example, limits, nbest>>
    /\ UNCHANGED notDecodeVars

\* The aggregator's runs: one beam width for both decoders, one text.
InitAggregate ==
    /\ InitIdle /\ ReaderIdle /\ FitIdle /\ InferIdle /\ EvalIdle
    /\ decoder \in {"standard", "extended"}
    /\ example \in { e \in Examples : e.words = <<"A", "b", "a">> }
    /\ limits \in { l \in [n_best_size : 1..MaxNBest,
                            max_answer_length : 1..MaxNBest,
                            n_top : 1..MaxNBest] : l.n_top = l.n_best_size }
    /\ dpc = "ready" /\ nbest = <<>>
    /\ mode = NoMode /\ answer = NoAnswer

NextAggregate ==
    \/ DecodeStandard
    \/ DecodeExtended
    \/ Aggregate

SpecAggregate == InitAggregate /\ [][NextAggregate]_vars

(***************************************************************************)
(* C1: for a single-process Reader (local_rank = -1) whose output          *)
(* directory check passes, fit runs the training loop to completion and    *)
(* only then saves model, tokenizer and training configuration, whatever   *)
(* the hyperparameters.  Stated here with the failures of the directory    *)
(* check, of the cache read and of train's divisions set aside: fit saves  *)
(* only after train returned, and no other exception ends it.              *)
(***************************************************************************)
C1_FitTrainsThenSaves ==
    /\ (fpc = "done" => global_step > 0)
    /\ (args.local_rank = -1 /\ fpc = "error")
          => ferror \in {"ValueError", "UnpicklingError", "ZeroDivisionError"}

(***************************************************************************)
(* C4: when output_dir exists, is non-empty and overwrite_output_dir is    *)
(* false, fit raises at once: the step taken from that state raises        *)
(* ValueError and leaves the cache file, the dataset, the training         *)
(* counters, output_dir and the model as they were, and nothing runs       *)
(* after the error.                                                        *)
(***************************************************************************)
C4_RefusedFitDoesNothing ==
    [][ /\ (fpc = "fit" /\ output_dir.exists /\ Listed(output_dir)
                /\ ~args.overwrite_output_dir)
            => /\ fpc' = "error" /\ ferror' = "ValueError"
               /\ UNCHANGED <<output_dir, cache_file, model_updates,
                              train_dataset, global_step, accum, args>>
        /\ (fpc = "error" => UNCHANGED vars) ]_vars

\* fit has raised on a directory that holds an earlier run.
C4_Witness ==
    /\ fpc = "error" /\ ferror = "ValueError"
    /\ output_dir.files = SavedFiles /\ ~args.overwrite_output_dir
    /\ model_updates = 0 /\ train_dataset = <<>>

(***************************************************************************)
(* C6: a cached feature file that cannot be read does not end the run:     *)
(* load_and_cache_examples falls back to the source data, so no call of    *)
(* it ever passes the read error on to fit.                                *)
(***************************************************************************)
C6_CacheReadFailureFallsBack == ferror # "UnpicklingError"

(***************************************************************************)
(* C2: Reader.predict returns the pair (evaluation details, final          *)
(* prediction) for every model family: once the predictions are written,   *)
(* Reader.predict ends without an exception and what it returns is the     *)
(* two-element result of the writer.                                       *)
(***************************************************************************)
C2_PredictReturnsPair ==
    (infer_fn = "predict" /\ writes = 1 /\ epc \in {"done", "error"})
        => (eerror = None /\ predicted = written)

(***************************************************************************)
(* C3: in both inference loops every row fed to the model carries the      *)
(* feature's input_mask as attention_mask and its segment_ids (None for    *)
(* xlm) as token_type_ids.                                                 *)
(***************************************************************************)
C3_MasksReachTheModel ==
    \A k \in 1..Len(model_calls) :
        LET f == features[order[k] + 1] IN
            /\ model_calls[k].attention_mask = f.input_mask
            /\ model_calls[k].token_type_ids =
                   IF args.model_type = "xlm" THEN NoTensor ELSE f.segment_ids

(***************************************************************************)
(* C7: when the inference loop has finished, all_results holds exactly     *)
(* one result per feature of the dataset, under either sampler.            *)
(***************************************************************************)
C7_OneResultPerFeature ==
    epc \in {"write", "returned", "done"} =>
        \A i \in 1..Len(features) :
            Cardinality({k \in 1..Len(all_results) :
                all_results[k].unique_id = features[i].unique_id}) = 1

(***************************************************************************)
(* C8: the prediction files are written once per call, after the last      *)
(* batch: the writer has run at most once; when it has, every index of     *)
(* the loader went through the model and left its result, and no batch     *)
(* raised; a call that came to its end has run it; and output_dir gains    *)
(* prediction files from it alone.                                         *)
(***************************************************************************)
C8_WriteOnceAfterLastBatch ==
    /\ writes <= 1
    /\ writes = 1 => /\ pos = Len(order)
                     /\ Len(all_results) = Len(order)
                     /\ eerror # "RuntimeError"
    /\ epc \in {"returned", "done"} => writes = 1
    /\ writes = 0 => output_dir.files \cap PredictionFiles = {}

\* The writer has run after a loop of several batches.
C8_Witness ==
    /\ writes = 1 /\ Len(order) > EvalBatchSize /\ Len(all_results) = Len(order)
    /\ output_dir.files \cap PredictionFiles # {}

(***************************************************************************)
(* C9: the mapping Reader.evaluate returns holds every metric of every     *)
(* checkpoint it evaluated: under the bare metric name when one            *)
(* checkpoint was evaluated, else under a key suffixed per checkpoint, so  *)
(* that no checkpoint's metrics overwrite another's.                       *)
(***************************************************************************)
C9_EveryCheckpointKeepsItsMetrics ==
    vpc = "done" =>
        /\ \A i \in 1..evaluated : \A m \in Metrics :
              \E e \in results : e.key = m /\ e.source = checkpoints[i]
        /\ evaluated = 1 => \A e \in results : e.suffix = <<>>

(***************************************************************************)
(* C10: under both decoders every entry of the n-best list has             *)
(* end >= start, at most max_answer_length tokens, and neither endpoint    *)
(* at a position p_mask marks as non-context.                              *)
(***************************************************************************)
C10_EmittedSpansAreValid ==
    \A i \in 1..Len(nbest) :
        LET c == nbest[i]
            f == example.features[c.feature]
        IN  /\ c.end >= c.start
            /\ c.end - c.start + 1 <= limits.max_answer_length
            /\ At(f.p_mask, c.start) = 0 /\ At(f.p_mask, c.end) = 0

\* A decoded list of two entries, from a window whose best starts and ends
\* also pair into a span longer than max_answer_length and into one that
\* ends before it starts.
C10_Witness ==
    /\ dpc = "decoded" /\ Len(nbest) = 2
    /\ limits.max_answer_length = 1
    /\ example.features[1].p_mask = <<1, 0, 0>>
    /\ example.features[1].start_logits = <<0, 1, 1>>
    /\ example.features[1].end_logits = <<0, 1, 1>>

(***************************************************************************)
(* C11: if every (start, end) pair of every feature of an Example is       *)
(* discarded by the validity filters, so that the Example has no valid     *)
(* candidate span, the aggregator emits the null result, the empty-string  *)
(* answer, and does not fail.                                              *)
(***************************************************************************)
BeamWidth == IF decoder = "standard" THEN limits.n_best_size ELSE limits.n_top

\* None of the pairs the decoder formed, in any feature, passed the filters.
EveryPairDiscarded == AllCandidates(1, BeamWidth) = <<>>

C11_NoCandidateGivesNullAnswer ==
    (dpc = "answered" /\ EveryPairDiscarded)
        => (nbest = <<>> /\ answer.raised = None /\ answer.text = <<>>)

\* Two windows, neither with a surviving pair: the second window always has
\* context tokens, so its pairs were formed and then discarded.
C11_Witness ==
    /\ dpc = "answered" /\ EveryPairDiscarded
    /\ Len(example.features) = 2
    /\ answer = [text |-> <<>>, raised |-> None]

(***************************************************************************)
(* C12: in the n-best list of an Example no two entries have the same      *)
(* normalized text; of the candidates with one text, from whichever        *)
(* features, the entry kept carries the highest score; the list has at     *)
(* most n_best_size entries and is sorted by descending score.             *)
(***************************************************************************)
C12_NBestIsDedupedAndRanked ==
    dpc = "decoded" =>
        /\ Len(nbest) <= limits.n_best_size
        /\ \A i \in 1..Len(nbest) : \A j \in (i + 1)..Len(nbest) :
                /\ nbest[i].text # nbest[j].text
                /\ nbest[i].score >= nbest[j].score
        /\ LET cs == AllCandidates(1, BeamWidth)
           IN  \A i \in 1..Len(nbest) : \A c \in 1..Len(cs) :
                    cs[c].text = nbest[i].text => cs[c].score <= nbest[i].score

\* Both windows yield the same text, the later window with the higher
\* score: the list keeps the later window's candidate, and a second entry.
C12_Witness ==
    /\ dpc = "decoded" /\ Len(nbest) = 2
    /\ LET cs == AllCandidates(1, BeamWidth)
       IN  \E i \in 1..Len(cs), j \in 1..Len(cs) :
                /\ cs[i].feature = 1 /\ cs[j].feature = 2
                /\ cs[i].text = cs[j].text /\ cs[i].score < cs[j].score
                /\ nbest[1] = cs[j]

(***************************************************************************)
(* C14: the number of optimizer steps train() performs, and the            *)
(* global_step it returns, equal the t_total it computed and logged as     *)
(* "Total optimization steps".                                             *)
(***************************************************************************)
C14_StepsEqualTotal ==
    fpc = "save" => (global_step = t_total /\ Len(applied) = t_total)

(***************************************************************************)
(* C16: every optimizer step of train() applies gradients accumulated from *)
(* exactly gradient_accumulation_steps backward passes, across epoch       *)
(* boundaries too.                                                         *)
(***************************************************************************)
C16_EveryStepHasGasBatches ==
    \A i \in 1..Len(applied) : applied[i] = args.gradient_accumulation_steps

(***************************************************************************)
(* C17: for a non-empty training dataset train() never divides by zero,    *)
(* neither in max_steps // (len(train_dataloader) //                       *)
(* gradient_accumulation_steps) nor in tr_loss / global_step.              *)
(***************************************************************************)
C17_NoDivisionByZero ==
    Len(train_dataset) > 0 => ferror # "ZeroDivisionError"

(***************************************************************************)
(* C15: in a distributed construction no process with local_rank other     *)
(* than 0 is past its barrier, looking classes up or loading config,       *)
(* tokenizer or model, until the local_rank = 0 process has loaded all     *)
(* three and entered its own barrier.                                      *)
(***************************************************************************)
PastBarrierBeforeLoad(p) ==
    \/ ipc[p] \in {"classes", "config", "tokenizer", "model", "to_device", "done"}
    \/ computed[p] \cap {"config", "tokenizer", "model"} # {}

FirstProcessLoaded ==
    \E q \in Active :
        /\ LocalRank(q) = 0
        /\ {"config", "tokenizer", "model", "barrier"} \subseteq computed[q]

UnknownModelType == init_type = None \/ Lower(init_type) \notin MODEL_CLASSES

C5_UnknownTypeFailsFirst ==
    \A p \in Procs :
        (UnknownModelType /\ ierror[p] = "KeyError") => computed[p] = {}

=============================================================================
